---- MODULE Spec2Model ----
(***************************************************************************)
(* Model of netlify/functions/appointments.js: the appointments CRUD       *)
(* handler (GET / POST / PUT / DELETE / OPTIONS) over one table.           *)
(*                                                                         *)
(* JSON values are records [t, s, n]: t is the JavaScript type, s the      *)
(* characters of a string, n the value of a number.  A field that is       *)
(* absent from the body reads as undefined.                                *)
(***************************************************************************)
EXTENDS Integers, Sequences, FiniteSets, TLC

VARIABLES table, nextId, now, pc, req, resp, conn, ends, lastWriter

vars == <<table, nextId, now, pc, req, resp, conn, ends, lastWriter>>

\* ------------------------------------------------------------------ bounds
MaxId == 2          \* rows ever inserted (ids are never reused)
MaxClock == 1       \* values of CURRENT_TIMESTAMP: 0..MaxClock
MaxListRows == 3    \* rows ever inserted in the listing specification

\* ------------------------------------------------------------- JSON values
Undef == [t |-> "undefined", s |-> <<>>, n |-> 0]
Null == [t |-> "null", s |-> <<>>, n |-> 0]
Str(chars) == [t |-> "string", s |-> chars, n |-> 0]
Num(k) == [t |-> "number", s |-> <<>>, n |-> k]

\* JavaScript ToBoolean: undefined, null, "" and 0 are falsy.
Truthy(v) ==
    CASE v.t = "undefined" -> FALSE
      [] v.t = "null" -> FALSE
      [] v.t = "string" -> Len(v.s) > 0
      [] v.t = "number" -> v.n # 0

\* a || b
Or(a, b) == IF Truthy(a) THEN a ELSE b

\* v is null or undefined (the test of the ?. operator)
Nullish(v) == v.t \in {"undefined", "null"}

\* ---------------------------------------------------------------- strings
LowerCase ==
    <<"a", "b", "c", "d", "e", "f", "g", "h", "i", "j", "k", "l", "m",
      "n", "o", "p", "q", "r", "s", "t", "u", "v", "w", "x", "y", "z", "ã">>
UpperCase ==
    <<"A", "B", "C", "D", "E", "F", "G", "H", "I", "J", "K", "L", "M",
      "N", "O", "P", "Q", "R", "S", "T", "U", "V", "W", "X", "Y", "Z", "Ã">>

UpperChar(c) ==
    IF \E i \in DOMAIN LowerCase : LowerCase[i] = c
    THEN UpperCase[CHOOSE i \in DOMAIN LowerCase : LowerCase[i] = c]
    ELSE c

\* String.prototype.toUpperCase
toUpperCase(chars) == [i \in DOMAIN chars |-> UpperChar(chars[i])]

IsSpace(c) == c \in {" ", "\t", "\n"}

RECURSIVE TrimStart(_)
TrimStart(chars) ==
    IF chars # <<>> /\ IsSpace(Head(chars)) THEN TrimStart(Tail(chars)) ELSE chars

RECURSIVE TrimEnd(_)
TrimEnd(chars) ==
    IF chars # <<>> /\ IsSpace(chars[Len(chars)])
    THEN TrimEnd(SubSeq(chars, 1, Len(chars) - 1))
    ELSE chars

\* String.prototype.trim
trim(chars) == TrimEnd(TrimStart(chars))

\* Character order of the text collation, for the characters that occur.
Collation ==
    <<"\t", "\n", " ", "-", "0", "1", "2", "3", "4", "5", "6", "7", "8", "9",
      "A", "B", "C", "D", "E", "F", "G", "H", "I", "J", "K", "L", "M",
      "N", "O", "P", "Q", "R", "S", "T", "U", "V", "W", "X", "Y", "Z",
      "a", "b", "c", "d", "e", "f", "g", "h", "i", "j", "k", "l", "m",
      "n", "o", "p", "q", "r", "s", "t", "u", "v", "w", "x", "y", "z", "Ã", "ã">>

CharCode(c) == CHOOSE i \in DOMAIN Collation : Collation[i] = c

\* a sorts strictly before b
RECURSIVE TextLess(_, _)
TextLess(a, b) ==
    IF b = <<>> THEN FALSE
    ELSE IF a = <<>> THEN TRUE
    ELSE IF Head(a) = Head(b) THEN TextLess(Tail(a), Tail(b))
    ELSE CharCode(Head(a)) < CharCode(Head(b))

\* ------------------------------------------------------- program constants
Services == {<<"P", "B">>, <<"L", "T">>, <<"O", "C">>, <<"R", "E", "P">>, <<"P", "O", "L">>}
Statuses == {<<"N", "E">>, <<"V", "E">>, <<"S", "T">>}
Periods == {<<"M", "a", "n", "h", "ã">>, <<"T", "a", "r", "d", "e">>}
DefaultStatus == <<"N", "E">>
DefaultSortIndex == 1

\* Array.prototype.includes on an array of strings (SameValueZero)
includes(list, v) == v.t = "string" /\ v.s \in list

\* ------------------------------------------------------ validateAppointment
ErrPlate == "Matrícula é obrigatória"
ErrCar == "Modelo do carro é obrigatório"
ErrService == "Tipo de serviço inválido"
ErrLocality == "Localidade é obrigatória"
ErrStatus == "Status inválido"
ErrPeriod == "Período inválido"

\* Mutant: the check without the trim, so a blank string passes.
MissingText_NoTrim(v) == ~Truthy(v) \/ v.t # "string"

\* !v || typeof v !== 'string' || v.trim().length === 0
MissingText(v) == ~Truthy(v) \/ v.t # "string" \/ Len(trim(v.s)) = 0

PushIf(cond, msg) == IF cond THEN <<msg>> ELSE <<>>

\* Mutant: the plate rule left out.
validateAppointment_NoPlate(data) ==
    PushIf(MissingText(data.car), ErrCar)
    \o PushIf(~Truthy(data.service) \/ ~includes(Services, data.service), ErrService)
    \o PushIf(MissingText(data.locality), ErrLocality)
    \o PushIf(~Truthy(data.status) \/ ~includes(Statuses, data.status), ErrStatus)
    \o PushIf(Truthy(data.period) /\ ~includes(Periods, data.period), ErrPeriod)

\* Mutant: return at the first violated rule.
validateAppointment_FirstOnly(data) ==
    IF MissingText(data.plate) THEN <<ErrPlate>>
    ELSE IF MissingText(data.car) THEN <<ErrCar>>
    ELSE IF ~Truthy(data.service) \/ ~includes(Services, data.service) THEN <<ErrService>>
    ELSE IF MissingText(data.locality) THEN <<ErrLocality>>
    ELSE IF ~Truthy(data.status) \/ ~includes(Statuses, data.status) THEN <<ErrStatus>>
    ELSE IF Truthy(data.period) /\ ~includes(Periods, data.period) THEN <<ErrPeriod>>
    ELSE <<>>

validateAppointment(data) ==
    PushIf(MissingText(data.plate), ErrPlate)
    \o PushIf(MissingText(data.car), ErrCar)
    \o PushIf(~Truthy(data.service) \/ ~includes(Services, data.service), ErrService)
    \o PushIf(MissingText(data.locality), ErrLocality)
    \o PushIf(~Truthy(data.status) \/ ~includes(Statuses, data.status), ErrStatus)
    \o PushIf(Truthy(data.period) /\ ~includes(Periods, data.period), ErrPeriod)

\* ------------------------------------------------------- transformToBackend
\* v?.trim(): undefined for null/undefined, TypeError for a non-string.
OptTrim(v) == IF Nullish(v) THEN Undef ELSE Str(trim(v.s))

\* v?.toUpperCase().trim()
OptUpperTrim(v) == IF Nullish(v) THEN Undef ELSE Str(trim(toUpperCase(v.s)))

\* A method call on a value that has no such method throws a TypeError.
CallThrows(v) == ~Nullish(v) /\ v.t # "string"

transformThrows(data) ==
    \/ CallThrows(data.plate)
    \/ CallThrows(data.car)
    \/ CallThrows(data.locality)
    \/ CallThrows(data.notes)
    \/ CallThrows(data.extra)

\* data.sortIndex || data.sort_index || 1
SortIndexOf(data) == Or(Or(data.sortIndex, data.sort_index), Num(DefaultSortIndex))

transformToBackend(data) ==
    [date |-> Or(data.date, Null),
     period |-> Or(data.period, Null),
     plate |-> OptUpperTrim(data.plate),
     car |-> OptTrim(data.car),
     service |-> data.service,
     locality |-> OptTrim(data.locality),
     status |-> Or(data.status, Str(DefaultStatus)),
     notes |-> Or(OptTrim(data.notes), Null),
     extra |-> Or(OptTrim(data.extra), Null),
     sort_index |-> SortIndexOf(data)]

\* ------------------------------------------------------------ the database
\* Calendar dates the requests use, in calendar order; a DATE column holds
\* the day, here its position in this list.
DateLiterals ==
    << <<"2", "0", "2", "4", "-", "0", "5", "-", "0", "1">>,
       <<"2", "0", "2", "4", "-", "0", "5", "-", "0", "2">> >>

\* text -> DATE, on the way into the date column
ParseDate(chars) == CHOOSE d \in DOMAIN DateLiterals : DateLiterals[d] = chars

\* row.date.toISOString().split('T')[0]
toISODate(day) == DateLiterals[day]

\* A query parameter: undefined is sent as NULL.
Bind(v) == IF v.t = "undefined" THEN Null ELSE v

BindDate(v) == IF Nullish(v) THEN Null ELSE Num(ParseDate(v.s))

NoRows == [i \in {} |-> 0]

\* INSERT INTO appointments (...) VALUES ($1..$10) RETURNING *
InsertRow(id, t, clock) ==
    [id |-> id,
     date |-> BindDate(t.date),
     period |-> Bind(t.period),
     plate |-> Bind(t.plate),
     car |-> Bind(t.car),
     service |-> Bind(t.service),
     locality |-> Bind(t.locality),
     status |-> Bind(t.status),
     notes |-> Bind(t.notes),
     extra |-> Bind(t.extra),
     sort_index |-> Bind(t.sort_index),
     created_at |-> clock,
     updated_at |-> clock]

\* Mutant: a partial patch, SET col = COALESCE($n, col) for the optional columns.
UpdateRow_Patch(row, t, clock) ==
    LET keep(new, old) == IF new = Null THEN old ELSE new
    IN [row EXCEPT
          !.date = keep(BindDate(t.date), row.date),
          !.period = keep(Bind(t.period), row.period),
          !.plate = Bind(t.plate),
          !.car = Bind(t.car),
          !.service = Bind(t.service),
          !.locality = Bind(t.locality),
          !.status = Bind(t.status),
          !.notes = keep(Bind(t.notes), row.notes),
          !.extra = keep(Bind(t.extra), row.extra),
          !.sort_index = Bind(t.sort_index),
          !.updated_at = clock]

\* Mutant: an UPDATE that leaves notes and extra as they were.
UpdateRow_Partial(row, t, clock) ==
    [row EXCEPT
       !.date = BindDate(t.date),
       !.period = Bind(t.period),
       !.plate = Bind(t.plate),
       !.car = Bind(t.car),
       !.service = Bind(t.service),
       !.locality = Bind(t.locality),
       !.status = Bind(t.status),
       !.sort_index = Bind(t.sort_index),
       !.updated_at = clock]

\* UPDATE appointments SET date = $1, ..., sort_index = $10,
\*   updated_at = CURRENT_TIMESTAMP WHERE id = $11 RETURNING *
UpdateRow(row, t, clock) ==
    [row EXCEPT
       !.date = BindDate(t.date),
       !.period = Bind(t.period),
       !.plate = Bind(t.plate),
       !.car = Bind(t.car),
       !.service = Bind(t.service),
       !.locality = Bind(t.locality),
       !.status = Bind(t.status),
       !.notes = Bind(t.notes),
       !.extra = Bind(t.extra),
       !.sort_index = Bind(t.sort_index),
       !.updated_at = clock]

\* DELETE FROM appointments WHERE id = $1
DeleteRow(tbl, id) == [i \in DOMAIN tbl \ {id} |-> tbl[i]]

\* ORDER BY CASE WHEN date IS NULL THEN 1 ELSE 0 END, date ASC, period ASC,
\*   sort_index ASC.  Compare(a, b) is -1, 0 or 1; ASC puts NULL last.
NullFlag(row) == IF row.date = Null THEN 1 ELSE 0

CompareInt(a, b) == IF a < b THEN -1 ELSE IF a > b THEN 1 ELSE 0

CompareDate(a, b) ==
    IF a = Null /\ b = Null THEN 0
    ELSE IF a = Null THEN 1
    ELSE IF b = Null THEN -1
    ELSE CompareInt(a.n, b.n)

CompareText(a, b) ==
    IF a = Null /\ b = Null THEN 0
    ELSE IF a = Null THEN 1
    ELSE IF b = Null THEN -1
    ELSE IF TextLess(a.s, b.s) THEN -1
    ELSE IF TextLess(b.s, a.s) THEN 1
    ELSE 0

FirstNonZero(cs) ==
    IF \E i \in DOMAIN cs : cs[i] # 0
    THEN cs[CHOOSE i \in DOMAIN cs : cs[i] # 0 /\ \A j \in 1..(i - 1) : cs[j] = 0]
    ELSE 0

\* Mutant: ORDER BY without the period column.
OrderBy_NoPeriod(a, b) ==
    FirstNonZero(<<CompareInt(NullFlag(a), NullFlag(b)),
                   CompareDate(a.date, b.date),
                   CompareInt(a.sort_index.n, b.sort_index.n)>>)

OrderBy(a, b) ==
    FirstNonZero(<<CompareInt(NullFlag(a), NullFlag(b)),
                   CompareDate(a.date, b.date),
                   CompareText(a.period, b.period),
                   CompareInt(a.sort_index.n, b.sort_index.n)>>)

\* The results SELECT * ... ORDER BY may return: every row once, in an order
\* with no pair out of order (rows that compare equal come in any order).
SelectAll(tbl) ==
    LET n == Cardinality(DOMAIN tbl)
    IN {[i \in 1..n |-> tbl[o[i]]] :
          o \in {f \in [1..n -> DOMAIN tbl] :
                   /\ \A i, j \in 1..n : i # j => f[i] # f[j]
                   /\ \A i, j \in 1..n : i < j => OrderBy(tbl[f[i]], tbl[f[j]]) <= 0}}

\* ------------------------------------------------------ transformToFrontend
transformToFrontend(row) ==
    [id |-> row.id,
     date |-> IF row.date # Null THEN Str(toISODate(row.date.n)) ELSE Null,
     period |-> row.period,
     plate |-> row.plate,
     car |-> row.car,
     service |-> row.service,
     locality |-> row.locality,
     status |-> row.status,
     notes |-> row.notes,
     extra |-> row.extra,
     sortIndex |-> row.sort_index,
     createdAt |-> row.created_at,
     updatedAt |-> row.updated_at]

MapToFrontend(rows) == [i \in DOMAIN rows |-> transformToFrontend(rows[i])]

\* ------------------------------------------------------ requests, responses
\* event.body: an object, the JSON text "null", or text JSON.parse rejects
\* (an absent body is rejected as well).
EmptyData ==
    [date |-> Undef, period |-> Undef, plate |-> Undef, car |-> Undef,
     service |-> Undef, locality |-> Undef, status |-> Undef, notes |-> Undef,
     extra |-> Undef, sortIndex |-> Undef, sort_index |-> Undef]

Body(data) == [kind |-> "object", data |-> data]
NullBody == [kind |-> "null", data |-> EmptyData]
GarbageBody == [kind |-> "garbage", data |-> EmptyData]
NoBody == [kind |-> "none", data |-> EmptyData]

Request(method, seg, body, fault) ==
    [method |-> method, seg |-> seg, body |-> body, fault |-> fault]

\* pathParts[pathParts.length - 1]: a row id, the collection name, or ""
IdSegment(n) == [kind |-> "id", n |-> n]
CollectionSegment == [kind |-> "appointments", n |-> 0]
EmptySegment == [kind |-> "", n |-> 0]

Response(code, ok, details, data) ==
    [statusCode |-> code, success |-> ok, details |-> details, data |-> data]

NoResponse == Response(0, FALSE, <<>>, <<>>)
InternalError == Response(500, FALSE, <<>>, <<>>)
InvalidData(errors) == Response(400, FALSE, errors, <<>>)
IdRequired == Response(400, FALSE, <<>>, <<>>)
\* Mutant: the rows.length === 0 test left out, so the success answer is built.
NotFound_Success == Response(200, TRUE, <<>>, <<>>)

NotFound == Response(404, FALSE, <<>>, <<>>)
MethodNotAllowed == Response(405, FALSE, <<>>, <<>>)
Preflight == Response(200, TRUE, <<>>, <<>>)

\* !appointmentId || appointmentId === 'appointments'
MissingId(seg) == seg.kind # "id"

\* JSON.parse(event.body) throws, or validateAppointment reads a property
\* of null.
BodyThrows(body) == body.kind # "object"

\* -------------------------------------------------------------- the handler
Procs == {1, 2}

Init ==
    /\ table = NoRows
    /\ nextId = 1
    /\ now = 0
    /\ pc = [p \in Procs |-> "idle"]
    /\ req = [p \in Procs |-> Request("NONE", EmptySegment, NoBody, "none")]
    /\ resp = [p \in Procs |-> NoResponse]
    /\ conn = [p \in Procs |-> "none"]
    /\ ends = [p \in Procs |-> 0]
    /\ lastWriter = 0

\* The platform calls the handler with request r.  OPTIONS returns before
\* the try block; every other method goes on to connectDB.
Invoke(p, r) ==
    /\ pc[p] \in {"idle", "done"}
    /\ req' = [req EXCEPT ![p] = r]
    /\ conn' = [conn EXCEPT ![p] = "none"]
    /\ ends' = [ends EXCEPT ![p] = 0]
    /\ IF r.method = "OPTIONS"
       THEN /\ resp' = [resp EXCEPT ![p] = Preflight]
            /\ pc' = [pc EXCEPT ![p] = "done"]
       ELSE /\ resp' = [resp EXCEPT ![p] = NoResponse]
            /\ pc' = [pc EXCEPT ![p] = "connect"]
    /\ UNCHANGED <<table, nextId, now, lastWriter>>

\* client = await connectDB(): on failure client stays undefined and the
\* catch block answers 500.
connectDB(p) ==
    /\ pc[p] = "connect"
    /\ IF req[p].fault = "connect"
       THEN /\ resp' = [resp EXCEPT ![p] = InternalError]
            /\ pc' = [pc EXCEPT ![p] = "finally"]
            /\ UNCHANGED conn
       ELSE /\ conn' = [conn EXCEPT ![p] = "open"]
            /\ pc' = [pc EXCEPT ![p] = "switch"]
            /\ UNCHANGED resp
    /\ UNCHANGED <<table, nextId, now, req, ends, lastWriter>>

\* The branch returns (or throws into the catch block) with response r.
Return(p, r) ==
    /\ resp' = [resp EXCEPT ![p] = r]
    /\ pc' = [pc EXCEPT ![p] = "finally"]
    /\ UNCHANGED <<now, req, conn, ends>>

\* case 'GET'
Get(p) ==
    /\ pc[p] = "switch"
    /\ req[p].method = "GET"
    /\ IF req[p].fault = "query"
       THEN Return(p, InternalError)
       ELSE \E rows \in SelectAll(table) :
              Return(p, Response(200, TRUE, <<>>, MapToFrontend(rows)))
    /\ UNCHANGED <<table, nextId, lastWriter>>

\* case 'POST'
Post(p) ==
    /\ pc[p] = "switch"
    /\ req[p].method = "POST"
    /\ LET body == req[p].body
           errors == validateAppointment(body.data)
           row == InsertRow(nextId, transformToBackend(body.data), now)
       IN IF BodyThrows(body)
          THEN Return(p, InternalError) /\ UNCHANGED <<table, nextId>>
          ELSE IF Len(errors) > 0
          THEN Return(p, InvalidData(errors)) /\ UNCHANGED <<table, nextId>>
          ELSE IF transformThrows(body.data) \/ req[p].fault = "query"
          THEN Return(p, InternalError) /\ UNCHANGED <<table, nextId>>
          ELSE /\ table' = (nextId :> row) @@ table
               /\ nextId' = nextId + 1
               /\ Return(p, Response(201, TRUE, <<>>, <<transformToFrontend(row)>>))
    /\ UNCHANGED lastWriter

\* case 'PUT'
Put(p) ==
    /\ pc[p] = "switch"
    /\ req[p].method = "PUT"
    /\ LET body == req[p].body
           id == req[p].seg.n
           errors == validateAppointment(body.data)
           row == UpdateRow(table[id], transformToBackend(body.data), now)
       IN IF MissingId(req[p].seg)
          THEN Return(p, IdRequired) /\ UNCHANGED <<table, lastWriter>>
          ELSE IF BodyThrows(body)
          THEN Return(p, InternalError) /\ UNCHANGED <<table, lastWriter>>
          ELSE IF Len(errors) > 0
          THEN Return(p, InvalidData(errors)) /\ UNCHANGED <<table, lastWriter>>
          ELSE IF transformThrows(body.data) \/ req[p].fault = "query"
          THEN Return(p, InternalError) /\ UNCHANGED <<table, lastWriter>>
          ELSE IF id \notin DOMAIN table
          THEN Return(p, NotFound) /\ UNCHANGED <<table, lastWriter>>
          ELSE /\ table' = [table EXCEPT ![id] = row]
               /\ lastWriter' = p
               /\ Return(p, Response(200, TRUE, <<>>, <<transformToFrontend(row)>>))
    /\ UNCHANGED nextId

\* case 'DELETE'
Delete(p) ==
    /\ pc[p] = "switch"
    /\ req[p].method = "DELETE"
    /\ LET id == req[p].seg.n
       IN IF MissingId(req[p].seg)
          THEN Return(p, IdRequired) /\ UNCHANGED table
          ELSE IF req[p].fault = "query"
          THEN Return(p, InternalError) /\ UNCHANGED table
          ELSE IF id \notin DOMAIN table
          THEN Return(p, NotFound) /\ UNCHANGED table
          ELSE /\ table' = DeleteRow(table, id)
               /\ Return(p, Response(200, TRUE, <<>>, <<>>))
    /\ UNCHANGED <<nextId, lastWriter>>

\* default
Default(p) ==
    /\ pc[p] = "switch"
    /\ req[p].method \notin {"GET", "POST", "PUT", "DELETE"}
    /\ Return(p, MethodNotAllowed)
    /\ UNCHANGED <<table, nextId, lastWriter>>

\* Mutant: client.end() at the end of the try block instead of in finally,
\* so the catch path skips it.
Finally_TryOnly(p) ==
    /\ pc[p] = "finally"
    /\ IF conn[p] = "open" /\ resp[p].statusCode # 500
       THEN /\ conn' = [conn EXCEPT ![p] = "closed"]
            /\ ends' = [ends EXCEPT ![p] = ends[p] + 1]
       ELSE UNCHANGED <<conn, ends>>
    /\ pc' = [pc EXCEPT ![p] = "done"]
    /\ UNCHANGED <<table, nextId, now, req, resp, lastWriter>>

\* finally { if (client) await client.end(); }
Finally(p) ==
    /\ pc[p] = "finally"
    /\ IF conn[p] = "open"
       THEN /\ conn' = [conn EXCEPT ![p] = "closed"]
            /\ ends' = [ends EXCEPT ![p] = ends[p] + 1]
       ELSE UNCHANGED <<conn, ends>>
    /\ pc' = [pc EXCEPT ![p] = "done"]
    /\ UNCHANGED <<table, nextId, now, req, resp, lastWriter>>

\* CURRENT_TIMESTAMP advances.
Tick ==
    /\ now < MaxClock
    /\ now' = now + 1
    /\ UNCHANGED <<table, nextId, pc, req, resp, conn, ends, lastWriter>>

\* ------------------------------------------------------ the requests issued
D1 == Str(DateLiterals[1])
D2 == Str(DateLiterals[2])
Manha == Str(<<"M", "a", "n", "h", "ã">>)
Tarde == Str(<<"T", "a", "r", "d", "e">>)

\* every field supplied
FullData ==
    [date |-> D1, period |-> Tarde, plate |-> Str(<<" ", "a", "b", "-", "1", "\t">>),
     car |-> Str(<<"c", "l", "i", "o", " ">>), service |-> Str(<<"P", "B">>),
     locality |-> Str(<<" ", "p", "o", "r", "t", "o">>), status |-> Str(<<"V", "E">>),
     notes |-> Str(<<" ", "n", " ">>), extra |-> Str(<<"e">>),
     sortIndex |-> Num(2), sort_index |-> Undef]

\* only the required fields supplied
MinimalData ==
    [EmptyData EXCEPT !.plate = Str(<<"z", "9">>), !.car = Str(<<"k", "a">>),
                      !.service = Str(<<"L", "T">>), !.locality = Str(<<"f", "a", "r", "o">>),
                      !.status = Str(<<"N", "E">>)]

MainData ==
    {FullData,
     MinimalData,
     [FullData EXCEPT !.plate = Undef],
     [FullData EXCEPT !.plate = Str(<<" ", " ">>)],
     [MinimalData EXCEPT !.car = Num(5), !.service = Str(<<"p", "b">>),
                         !.locality = Null, !.status = Str(<<"O", "K">>),
                         !.period = Str(<<"x">>)],
     [MinimalData EXCEPT !.status = Undef],
     [FullData EXCEPT !.notes = Num(7)]}

MainBodies == {Body(d) : d \in MainData} \cup {NullBody, GarbageBody}

IdSegments(maxId) == {IdSegment(n) : n \in 1..(maxId + 1)}

\* Requests served with the database reachable and every query answered.
PlainRequests(maxId) ==
    {Request("OPTIONS", CollectionSegment, NoBody, "none"),
     Request("PATCH", CollectionSegment, NoBody, "none"),
     Request("GET", CollectionSegment, NoBody, "none"),
     Request("PUT", CollectionSegment, Body(FullData), "none"),
     Request("PUT", EmptySegment, Body(FullData), "none"),
     Request("DELETE", CollectionSegment, NoBody, "none"),
     Request("DELETE", EmptySegment, NoBody, "none")}
    \cup {Request("POST", CollectionSegment, b, "none") : b \in MainBodies}
    \cup {Request("PUT", g, b, "none") : g \in IdSegments(maxId), b \in MainBodies}
    \cup {Request("DELETE", g, NoBody, "none") : g \in IdSegments(maxId)}

\* Requests during which connectDB or the query fails.
FaultyRequests ==
    {Request("GET", CollectionSegment, NoBody, f) : f \in {"connect", "query"}}
    \cup {Request("POST", CollectionSegment, Body(d), f) :
            d \in {FullData, [FullData EXCEPT !.plate = Undef]}, f \in {"connect", "query"}}
    \cup {Request("PUT", IdSegment(1), Body(d), f) :
            d \in {MinimalData, [FullData EXCEPT !.plate = Undef]}, f \in {"connect", "query"}}
    \cup {Request("DELETE", IdSegment(1), NoBody, f) : f \in {"connect", "query"}}
    \cup {Request("PATCH", CollectionSegment, NoBody, "connect")}

MainRequests == PlainRequests(MaxId) \cup FaultyRequests

\* A POST is issued only while ids remain below the bound.
Issuable(r, maxId) == r.method = "POST" => nextId <= maxId

Step(p) ==
    \/ connectDB(p)
    \/ Get(p)
    \/ Post(p)
    \/ Put(p)
    \/ Delete(p)
    \/ Default(p)
    \/ Finally(p)

\* One invocation at a time.
Next ==
    \/ \E r \in MainRequests : Issuable(r, MaxId) /\ Invoke(1, r)
    \/ Step(1)
    \/ Tick

Spec == Init /\ [][Next]_vars

TypeOK ==
    /\ nextId >= 1
    /\ \A i \in DOMAIN table : table[i].id = i /\ i < nextId
\* ------------------------------------------------- validation on its own
\* Bodies over every combination of these values of the six validated fields.
PlateValues ==
    {Undef, Null, Str(<<>>), Str(<<" ">>), Str(<<" ", "a", "b">>), Num(5)}
CarValues == {Undef, Str(<<"\t", "\n">>), Str(<<"k", "a">>)}
ServiceValues ==
    {Undef, Str(<<"P", "B">>), Str(<<"P", "O", "L">>), Str(<<"p", "b">>), Num(1)}
LocalityValues == {Undef, Num(0), Str(<<"f", "a", "r", "o", " ">>)}
StatusValues ==
    {Undef, Str(<<>>), Str(<<"N", "E">>), Str(<<"S", "T">>), Str(<<"N", "E", " ">>)}
PeriodValues == {Undef, Null, Str(<<>>), Num(0), Num(1), Str(<<"x">>), Manha, Tarde}

ValidationData ==
    {[EmptyData EXCEPT !.plate = a, !.car = b, !.service = c, !.locality = d,
                       !.status = e, !.period = f] :
       a \in PlateValues, b \in CarValues, c \in ServiceValues,
       d \in LocalityValues, e \in StatusValues, f \in PeriodValues}

ValidationRequests ==
    {Request("POST", CollectionSegment, Body(d), "none") : d \in ValidationData}
    \cup {Request("PUT", IdSegment(1), Body(d), "none") : d \in ValidationData}

\* One Create or Update per behaviour, its body drawn from ValidationData.
NextValidation ==
    \/ pc[1] = "idle" /\ \E r \in ValidationRequests : Invoke(1, r)
    \/ connectDB(1)
    \/ Post(1)
    \/ Put(1)
    \/ Finally(1)

SpecValidation == Init /\ [][NextValidation]_vars

\* ------------------------------------------------------ create, then list
DateValues == {Undef, Null, Str(<<>>), D1, D2}
NotesValues == {Undef, Null, Str(<<" ">>), Str(<<" ", "n", " ">>)}
SortIndexValues == {Undef, Num(0), Num(2)}
SnakeSortIndexValues == {Undef, Num(0), Num(3)}

RoundTripData ==
    {[FullData EXCEPT !.date = a, !.period = b, !.plate = c, !.notes = d,
                      !.extra = e, !.sortIndex = f, !.sort_index = g] :
       a \in DateValues, b \in {Undef, Str(<<>>), Tarde},
       c \in {Str(<<" ", "a", "b", "-", "1", "\t">>), Str(<<"Z", "9">>)},
       d \in NotesValues, e \in {Undef, Str(<<"e", " ">>)},
       f \in SortIndexValues, g \in SnakeSortIndexValues}

\* Invocation 1 is one Create; invocation 2 lists once the Create returned.
NextRoundTrip ==
    \/ pc[1] = "idle"
       /\ \E d \in RoundTripData : Invoke(1, Request("POST", CollectionSegment, Body(d), "none"))
    \/ pc[1] = "done" /\ Invoke(2, Request("GET", CollectionSegment, NoBody, "none"))
    \/ \E p \in Procs : connectDB(p) \/ Post(p) \/ Get(p) \/ Finally(p)

SpecRoundTrip == Init /\ [][NextRoundTrip]_vars

\* ------------------------------------------------------------ the listing
\* Sort keys (date, period, sortIndex) of the rows created for listing.
ListKeys ==
    {<<Undef, Undef, Undef>>, <<Undef, Manha, Undef>>,
     <<D1, Manha, Undef>>, <<D1, Manha, Num(2)>>, <<D1, Tarde, Undef>>,
     <<D1, Undef, Undef>>, <<D2, Manha, Undef>>, <<D2, Tarde, Num(2)>>}

ListRequests ==
    {Request("GET", CollectionSegment, NoBody, "none")}
    \cup {Request("POST", CollectionSegment,
                  Body([MinimalData EXCEPT !.date = k[1], !.period = k[2], !.sortIndex = k[3]]),
                  "none") : k \in ListKeys}
    \cup {Request("DELETE", IdSegment(n), NoBody, "none") : n \in 1..MaxListRows}

NextList ==
    \/ \E r \in ListRequests : Issuable(r, MaxListRows) /\ Invoke(1, r)
    \/ connectDB(1)
    \/ Get(1)
    \/ Post(1)
    \/ Delete(1)
    \/ Finally(1)

SpecList == Init /\ [][NextList]_vars

\* ----------------------------------------------------- concurrent updates
UpdateData ==
    {FullData,
     MinimalData,
     [MinimalData EXCEPT !.date = D2, !.period = Manha, !.notes = Str(<<"m">>),
                         !.sort_index = Num(3)]}

\* Invocation 1 creates the rows; then both invocations update row 1, their
\* steps interleaved in every order.
NextConcurrent ==
    \/ \E d \in {FullData, MinimalData} :
         /\ Issuable(Request("POST", CollectionSegment, Body(d), "none"), MaxId)
         /\ Invoke(1, Request("POST", CollectionSegment, Body(d), "none"))
    \/ \E p \in Procs, d \in UpdateData :
         /\ 1 \in DOMAIN table
         /\ Invoke(p, Request("PUT", IdSegment(1), Body(d), "none"))
    \/ \E p \in Procs : connectDB(p) \/ Post(p) \/ Put(p) \/ Finally(p)
    \/ Tick

SpecConcurrent == Init /\ [][NextConcurrent]_vars

\* ----------------------------------------------------- the stated contract
\* The six validation rules as the specification words them.
Blank(chars) == \A i \in DOMAIN chars : chars[i] \in {" ", "\t", "\n"}

NonBlankText(v) == v.t = "string" /\ ~Blank(v.s)

\* "if provided (non-null/non-empty)": null, "" and 0 are JSON's empty values
Provided(v) == v \notin {Undef, Null, Str(<<>>), Num(0)}

ViolatedRules(data) ==
    {r \in {"plate", "car", "service", "locality", "status", "period"} :
       CASE r = "plate" -> ~NonBlankText(data.plate)
         [] r = "car" -> ~NonBlankText(data.car)
         [] r = "service" -> ~(data.service.t = "string" /\ data.service.s \in Services)
         [] r = "locality" -> ~NonBlankText(data.locality)
         [] r = "status" -> ~(data.status.t = "string" /\ data.status.s \in Statuses)
         [] r = "period" -> Provided(data.period)
                            /\ ~(data.period.t = "string" /\ data.period.s \in Periods)}

MessageOf(r) ==
    CASE r = "plate" -> ErrPlate
      [] r = "car" -> ErrCar
      [] r = "service" -> ErrService
      [] r = "locality" -> ErrLocality
      [] r = "status" -> ErrStatus
      [] r = "period" -> ErrPeriod

FreeText(v) == v.t \in {"undefined", "null", "string"}

\* Input that meets every rule, with free text (or nothing) in notes and extra.
ValidInput(data) ==
    ViolatedRules(data) = {} /\ FreeText(data.notes) /\ FreeText(data.extra)

\* p has left the switch with its response set.
Answered(p) == pc[p] \in {"finally", "done"} /\ req[p].method # "OPTIONS"

\* p takes the step that runs its branch of the switch.
Runs(p, method) == pc[p] = "switch" /\ pc'[p] = "finally" /\ req[p].method = method

Writes(p) ==
    /\ req[p].method \in {"POST", "PUT"}
    /\ req[p].method = "PUT" => req[p].seg.kind = "id"
    /\ req[p].body.kind = "object"

\* C1: every stored row has non-null, non-empty plate, car and locality,
\* service among the five codes, status among the three codes, and period
\* null or one of the two periods.
C1_StoredRowsValid ==
    \A i \in DOMAIN table :
        LET row == table[i]
            NonEmpty(v) == v.t = "string" /\ Len(v.s) > 0
        IN /\ NonEmpty(row.plate)
           /\ NonEmpty(row.car)
           /\ NonEmpty(row.locality)
           /\ row.service.t = "string" /\ row.service.s \in Services
           /\ row.status.t = "string" /\ row.status.s \in Statuses
           /\ row.period = Null \/ (row.period.t = "string" /\ row.period.s \in Periods)

\* Rows were created, one was updated and one was deleted.
C1_Witness ==
    /\ \E i \in DOMAIN table : table[i].updated_at > table[i].created_at
    /\ \E j \in 1..(nextId - 1) : j \notin DOMAIN table

\* C2: a Create, or an Update with an id, whose body violates a rule is
\* answered 400 with success = false, and no step of that invocation
\* changes the table.
C2_InvalidRejected ==
    [][\A p \in Procs :
         (Writes(p) /\ ViolatedRules(req[p].body.data) # {} /\ pc'[p] # pc[p]
          /\ pc[p] \in {"connect", "switch", "finally"}) =>
            /\ table' = table /\ nextId' = nextId
            /\ Runs(p, req[p].method) =>
                 resp'[p].statusCode = 400 /\ ~resp'[p].success]_vars

\* An invalid Update of an existing row was answered 400.
C2_Witness ==
    /\ Answered(1) /\ Writes(1) /\ req[1].method = "PUT"
    /\ ViolatedRules(req[1].body.data) # {}
    /\ req[1].seg.n \in DOMAIN table
    /\ resp[1].statusCode = 400

\* C4: with the database answering, a valid Update or a Delete whose id
\* matches no row is answered 404 and leaves the table unchanged; a Delete
\* that matches is answered 200 and removes the row; a removed id never
\* matches again.
C4_UnknownIdNotFound ==
    [][\A p \in Procs :
         LET id == req[p].seg.n
             known == id \in DOMAIN table
             idGiven == req[p].seg.kind = "id" /\ req[p].fault = "none"
         IN /\ (Runs(p, "PUT") /\ idGiven /\ req[p].body.kind = "object"
                /\ ValidInput(req[p].body.data) /\ ~known)
               => resp'[p].statusCode = 404 /\ table' = table
            /\ (Runs(p, "DELETE") /\ idGiven /\ ~known)
               => resp'[p].statusCode = 404 /\ table' = table
            /\ (Runs(p, "DELETE") /\ idGiven /\ known)
               => resp'[p].statusCode = 200 /\ table' = DeleteRow(table, id)
                  /\ id \notin DOMAIN table'
            /\ \A i \in 1..(nextId - 1) : i \notin DOMAIN table => i \notin DOMAIN table']_vars

\* A second Delete of an id that was deleted before was answered 404.
C4_Witness ==
    /\ Answered(1) /\ req[1].method = "DELETE" /\ req[1].fault = "none"
    /\ req[1].seg.kind = "id" /\ req[1].seg.n < nextId
    /\ resp[1].statusCode = 404
    /\ table # NoRows

\* C5: a Create whose input is valid except that status is omitted is
\* answered 201 and the stored row has status NE.
C5_StatusDefaulted ==
    \A p \in Procs :
        (/\ Answered(p) /\ req[p].method = "POST" /\ req[p].fault = "none"
         /\ req[p].body.kind = "object"
         /\ req[p].body.data.status = Undef
         /\ ValidInput([req[p].body.data EXCEPT !.status = Str(DefaultStatus)]))
        => /\ resp[p].statusCode = 201
           /\ resp[p].data[1].status = Str(DefaultStatus)

\* C6: an invocation that has returned holds no open connection, and has
\* released the connection exactly once if it acquired one (never otherwise).
C6_ConnectionReleased ==
    \A p \in Procs :
        /\ ends[p] <= 1
        /\ conn[p] = "open" => pc[p] \in {"switch", "finally"}
        /\ pc[p] = "done" =>
             /\ conn[p] # "open"
             /\ ends[p] = (IF conn[p] = "closed" THEN 1 ELSE 0)
             /\ (req[p].method # "OPTIONS" /\ req[p].fault # "connect") => conn[p] = "closed"

\* An invocation whose query threw has returned 500 with the connection released.
C6_Witness ==
    /\ pc[1] = "done" /\ req[1].fault = "query"
    /\ resp[1].statusCode = 500
    /\ conn[1] = "closed" /\ ends[1] = 1

\* C10: a successful Update sets every mutable field of the matching row to
\* the normalized input (absent optional fields to null, absent sortIndex to
\* 1), sets updated_at to the current timestamp, and leaves the row's id and
\* created_at, the set of rows and every other row unchanged.
C10_FullReplace ==
    [][\A p \in Procs :
         (Runs(p, "PUT") /\ resp'[p].statusCode = 200) =>
            LET id == req[p].seg.n
                data == req[p].body.data
                t == transformToBackend(data)
                row == table'[id]
            IN /\ DOMAIN table' = DOMAIN table
               /\ \A i \in DOMAIN table : i # id => table'[i] = table[i]
               /\ row.id = table[id].id /\ row.created_at = table[id].created_at
               /\ row.updated_at = now
               /\ row.date = BindDate(t.date) /\ row.period = t.period
               /\ row.plate = t.plate /\ row.car = t.car /\ row.service = t.service
               /\ row.locality = t.locality /\ row.status = t.status
               /\ row.notes = t.notes /\ row.extra = t.extra
               /\ row.sort_index = t.sort_index
               /\ data.date = Undef => row.date = Null
               /\ data.period = Undef => row.period = Null
               /\ data.notes = Undef => row.notes = Null
               /\ data.extra = Undef => row.extra = Null
               /\ (data.sortIndex = Undef /\ data.sort_index = Undef)
                    => row.sort_index = Num(DefaultSortIndex)]_vars

\* A later Update with only the required fields has cleared the optional
\* fields of one of two rows.
C10_Witness ==
    /\ Answered(1) /\ req[1].method = "PUT" /\ resp[1].statusCode = 200
    /\ req[1].body.data = MinimalData
    /\ Cardinality(DOMAIN table) = 2
    /\ LET row == table[req[1].seg.n]
       IN row.notes = Null /\ row.date = Null /\ row.created_at < row.updated_at
\* C3: the details of the answer to a Create or Update hold exactly one
\* message for each violated rule and nothing else; the answer is a 400
\* exactly when some rule is violated.
C3_OneMessagePerRule ==
    \A p \in Procs :
        (Answered(p) /\ Writes(p) /\ req[p].fault = "none") =>
            LET violated == ViolatedRules(req[p].body.data)
                details == resp[p].details
            IN /\ Len(details) = Cardinality(violated)
               /\ \A r \in violated :
                    Cardinality({k \in DOMAIN details : details[k] = MessageOf(r)}) = 1
               /\ (resp[p].statusCode = 400) <=> (violated # {})

\* Omitting both plate and service was answered with exactly two messages.
C3_Witness ==
    /\ Answered(1) /\ Writes(1)
    /\ ViolatedRules(req[1].body.data) = {"plate", "service"}
    /\ req[1].body.data.plate = Undef /\ req[1].body.data.service = Undef
    /\ resp[1].statusCode = 400
    /\ Len(resp[1].details) = 2
\* What Create stores, as the specification words it.
TextOrNull(v) == IF Nullish(v) \/ Blank(v.s) THEN Null ELSE Str(trim(v.s))

Normalized(data) ==
    [date |-> IF Provided(data.date) THEN data.date ELSE Null,
     period |-> IF Provided(data.period) THEN data.period ELSE Null,
     plate |-> Str(toUpperCase(trim(data.plate.s))),
     car |-> Str(trim(data.car.s)),
     service |-> data.service,
     locality |-> Str(trim(data.locality.s)),
     status |-> data.status,
     notes |-> TextOrNull(data.notes),
     extra |-> TextOrNull(data.extra),
     sortIndex |-> IF data.sortIndex # Undef THEN data.sortIndex
                   ELSE IF data.sort_index # Undef THEN data.sort_index
                   ELSE Num(DefaultSortIndex)]

SameFields(entity, n) ==
    /\ entity.date = n.date /\ entity.period = n.period
    /\ entity.plate = n.plate /\ entity.car = n.car
    /\ entity.service = n.service /\ entity.locality = n.locality
    /\ entity.status = n.status /\ entity.notes = n.notes
    /\ entity.extra = n.extra /\ entity.sortIndex = n.sortIndex

\* C8: a Create with valid input is answered 201, and a List that follows
\* returns the created entity with fields equal to the normalized input,
\* sortIndex being the supplied sortIndex (or sort_index) and 1 only when
\* neither is supplied.
C8_RoundTrip ==
    (/\ Answered(1) /\ req[1].method = "POST" /\ req[1].fault = "none"
     /\ req[1].body.kind = "object" /\ ValidInput(req[1].body.data))
    => /\ resp[1].statusCode = 201
       /\ (Answered(2) /\ req[2].method = "GET" /\ resp[2].statusCode = 200)
          => \E k \in DOMAIN resp[2].data :
               /\ resp[2].data[k].id = resp[1].data[1].id
               /\ SameFields(resp[2].data[k], Normalized(req[1].body.data))

\* C7: List returns every row exactly once; a row with a null date comes
\* after every row with a date; dated rows ascend by date; rows of equal
\* date ascend by period; rows of equal date and period ascend by sortIndex.
C7_ListOrdered ==
    \A p \in Procs :
        (Answered(p) /\ req[p].method = "GET" /\ resp[p].statusCode = 200) =>
            LET data == resp[p].data
            IN /\ Len(data) = Cardinality(DOMAIN table)
               /\ \A i \in DOMAIN table :
                    \E k \in DOMAIN data : data[k] = transformToFrontend(table[i])
               /\ \A a, b \in DOMAIN data :
                    a < b =>
                      /\ data[a].date = Null => data[b].date = Null
                      /\ (data[a].date # Null /\ data[b].date # Null)
                           => ~TextLess(data[b].date.s, data[a].date.s)
                      /\ (data[a].date = data[b].date
                          /\ data[a].period # Null /\ data[b].period # Null)
                           => ~TextLess(data[b].period.s, data[a].period.s)
                      /\ (data[a].date = data[b].date /\ data[a].period = data[b].period)
                           => data[a].sortIndex.n <= data[b].sortIndex.n

\* A list of three rows: two of one date and different periods, then one
\* without a date.
C7_Witness ==
    /\ Answered(1) /\ req[1].method = "GET" /\ resp[1].statusCode = 200
    /\ Len(resp[1].data) = 3
    /\ resp[1].data[1].date = resp[1].data[2].date
    /\ resp[1].data[1].period # resp[1].data[2].period
    /\ resp[1].data[1].id > resp[1].data[2].id
    /\ resp[1].data[3].date = Null

MutableFields(row) ==
    <<row.date, row.period, row.plate, row.car, row.service, row.locality,
      row.status, row.notes, row.extra, row.sort_index>>

\* C9: when two valid Updates of the same existing row have both been
\* answered, both answers are 200 and the row's mutable fields are the whole
\* normalized input of the Update that executed last; no Update changes
\* another row.
C9_LastWriterWins ==
    /\ [](\A p, q \in Procs :
            (/\ p # q /\ Answered(p) /\ Answered(q)
             /\ req[p].method = "PUT" /\ req[q].method = "PUT"
             /\ req[p].seg = req[q].seg)
            => /\ resp[p].statusCode = 200 /\ resp[q].statusCode = 200
               /\ lastWriter \in {p, q}
               /\ LET t == transformToBackend(req[lastWriter].body.data)
                  IN MutableFields(table[req[p].seg.n])
                       = <<BindDate(t.date), t.period, t.plate, t.car, t.service,
                           t.locality, t.status, t.notes, t.extra, t.sort_index>>)
    /\ [][\A p \in Procs : Runs(p, "PUT") =>
            \A i \in DOMAIN table : i # req[p].seg.n => table'[i] = table[i]]_vars

\* Two Updates with different inputs were in flight together and both have
\* executed, the second row untouched beside them.
C9_Witness ==
    /\ pc[1] = "finally" /\ pc[2] = "finally"
    /\ req[1].method = "PUT" /\ req[2].method = "PUT"
    /\ req[1].body # req[2].body
    /\ resp[1].statusCode = 200 /\ resp[2].statusCode = 200
    /\ lastWriter = 1
    /\ 2 \in DOMAIN table
====
